---- MODULE Spec2Model ----
(***************************************************************************)
(* A model of the Ingest stage of the audit pipeline (process/ingest.go),  *)
(* of the zip source manager it drives (source/zip), and of the            *)
(* configuration check of the Phpcs stage as its test table describes it.  *)
(*                                                                         *)
(* Strings are modelled as sequences of fragments: the empty string is     *)
(* <<>> and concatenation is \o.  A nil error is the empty sequence.       *)
(* SHA-256 is modelled as a collision-free constructor: the digest of x is *)
(* the pair <<"sha256", x>>, which is never the empty string.              *)
(* Channels are unbuffered, as the tests make them: a send completes when  *)
(* a receiver takes the value.                                             *)
(***************************************************************************)
EXTENDS Integers, Sequences, FiniteSets, TLC

VARIABLES
    stage,        \* which stage this run constructs: "Ingest" or "Phpcs"
    called,       \* Run has been called and has returned
    runRet,       \* the error Run returned (NoError for nil)
    started,      \* Run started the background worker
    ig,           \* the Ingest struct: configuration and Process fields
    cs,           \* the Phpcs struct's configuration
    errListener,  \* a goroutine is receiving from the error channel
    cancelled,    \* the stage's context has been cancelled
    arrivals,     \* messages the worker has received from In, in order
    todo,         \* channel sends the worker still has to complete in this iteration
    outLog,       \* what the downstream stage received on Out, in order
    errLog,       \* what the listener received on the error channel, in order
    doCalls,      \* arrival indices for which Do was invoked
    csLog,        \* the Phpcs worker's counters
    fnArgs,       \* arguments of a direct call (Do, combinedChecksum)
    fnRet         \* result of that call

vars == <<stage, called, runRet, started, ig, cs, errListener, cancelled,
          arrivals, todo, outLog, errLog, doCalls, csLog, fnArgs, fnRet>>

-----------------------------------------------------------------------------
(* Bounds *)

MaxMsgs == 3
MaxSums == 3
MaxDigest == 2

-----------------------------------------------------------------------------
(* Strings, errors, messages *)

EmptyString == <<>>
NoError == <<>>

ErrorsNew(text) == text

TempDir == <<"tmp">>

Titles == {EmptyString, <<"T">>}
Slugs == {EmptyString, <<"s">>}
SourceURLs == {EmptyString, <<"a.zip">>, <<"e.zip">>, <<"bad.zip">>, <<"c.git">>}
SourceTypes == {EmptyString, <<"zip">>, <<"git">>}
Endpoints == {EmptyString, <<"E">>}
AuditLists == {<<>>, <<"phpcs">>}

AllMessages ==
    [Title : Titles, Slug : Slugs, SourceURL : SourceURLs, SourceType : SourceTypes,
     ResponseAPIEndpoint : Endpoints, Audits : AuditLists]

BaseMessage ==
    [Title |-> <<"T">>, Slug |-> <<"s">>, SourceURL |-> <<"a.zip">>,
     SourceType |-> <<"zip">>, ResponseAPIEndpoint |-> <<"E">>, Audits |-> <<"phpcs">>]

ZeroMessage ==
    [Title |-> EmptyString, Slug |-> EmptyString, SourceURL |-> EmptyString,
     SourceType |-> EmptyString, ResponseAPIEndpoint |-> EmptyString, Audits |-> <<>>]

Differences(m) ==
    Cardinality({f \in DOMAIN BaseMessage : m[f] # BaseMessage[f]})

\* The messages a producer puts on In: the well-formed message, every message
\* that differs from it in one field, and the consistent git message.
Messages ==
    {m \in AllMessages : Differences(m) <= 1}
    \cup {[BaseMessage EXCEPT !.SourceURL = <<"c.git">>, !.SourceType = <<"git">>]}

-----------------------------------------------------------------------------
(* source/zip *)

NilSource == [isNil |-> TRUE, url |-> EmptyString, dest |-> EmptyString,
              files |-> <<>>, checksum |-> EmptyString]

NewZip(url) == [isNil |-> FALSE, url |-> url, dest |-> EmptyString,
                files |-> <<>>, checksum |-> EmptyString]

\* source.GetKind: the kind of source a URL names, "zip" or none.
GetKind(url) == IF url \in {<<"a.zip">>, <<"e.zip">>, <<"bad.zip">>} THEN <<"zip">> ELSE EmptyString

Entry(name, isDir, sum) == [Name |-> name, IsDir |-> isDir, sum |-> sum]

\* What the network serves: for each URL a download error or an archive, a
\* list of entries, each with its name, its directory flag and the SHA-256
\* digest of its content (digests are numbers, ordered as their hex strings).
downloadFile(url) ==
    IF url = <<"a.zip">>
      THEN [err |-> NoError,
            File |-> << Entry(<<"p", "/">>, TRUE, 0),
                        Entry(<<"p", "/", "x">>, FALSE, 2),
                        Entry(<<"p", "/", "y">>, FALSE, 1) >>]
    ELSE IF url = <<"e.zip">>
      THEN [err |-> NoError, File |-> << Entry(<<"p", "/">>, TRUE, 0) >>]
    ELSE [err |-> ErrorsNew(<<"Get ">> \o url \o <<": no such host">>), File |-> <<>>]

TrimPrefix(s, prefix) ==
    IF Len(prefix) <= Len(s) /\ SubSeq(s, 1, Len(prefix)) = prefix
      THEN SubSeq(s, Len(prefix) + 1, Len(s))
      ELSE s

FilepathJoin(dir, rel) == IF rel = <<>> THEN dir ELSE dir \o <<"/">> \o rel

RECURSIVE rootPathOf(_, _)
rootPathOf(files, rootPath) ==
    IF files = <<>> THEN rootPath
    ELSE LET file == Head(files)
             path == file.Name
         IN IF ~file.IsDir THEN rootPathOf(Tail(files), rootPath)
            ELSE IF Len(path) < Len(rootPath) \/ rootPath = EmptyString
                   THEN rootPathOf(Tail(files), path)
                   ELSE rootPathOf(Tail(files), rootPath)

RECURSIVE unzipEntries(_, _, _)
unzipEntries(files, destination, rootPath) ==
    IF files = <<>> THEN [filenames |-> <<>>, checksums |-> <<>>]
    ELSE LET file == Head(files)
             path == FilepathJoin(destination, TrimPrefix(file.Name, rootPath))
             rest == unzipEntries(Tail(files), destination, rootPath)
         IN IF file.IsDir THEN rest
            ELSE [filenames |-> <<path>> \o rest.filenames,
                  checksums |-> <<file.sum>> \o rest.checksums]

unzip(files, destination) ==
    unzipEntries(files, destination, rootPathOf(files, EmptyString))

RECURSIVE Insert(_, _)
Insert(x, sorted) ==
    IF sorted = <<>> THEN <<x>>
    ELSE IF x <= Head(sorted) THEN <<x>> \o sorted
    ELSE <<Head(sorted)>> \o Insert(x, Tail(sorted))

RECURSIVE SortStrings(_)
SortStrings(s) == IF s = <<>> THEN <<>> ELSE Insert(Head(s), SortStrings(Tail(s)))

\* json.Marshal of a []string: a nil slice is "null", otherwise the array.
JsonMarshal(sums) == [null |-> sums = <<>>, items |-> sums]

Sha256Hex(bytes) == <<"sha256", bytes>>

combinedChecksumUnsorted(sums) == Sha256Hex(JsonMarshal(sums))

combinedChecksum(sums) == Sha256Hex(JsonMarshal(SortStrings(sums)))

\* Zip.PrepareFiles: the manager after the call, and the error returned.
PrepareFiles(m, dest) ==
    LET m1 == [m EXCEPT !.dest = dest]
        dl == downloadFile(m.url)
    IN IF dl.err # NoError THEN [m |-> m1, err |-> dl.err]
       ELSE LET u == unzip(dl.File, dest \o <<"/unzipped">>)
            IN [m |-> [m1 EXCEPT !.files = u.filenames,
                                  !.checksum = combinedChecksum(u.checksums)],
                err |-> NoError]

GetChecksum(m) == m.checksum
GetFiles(m) == m.files

-----------------------------------------------------------------------------
(* process: the Process fields and Ingest *)

\* Result is a map from string keys to values: a function on its key set.
EmptyResult == <<>>

\* A map assignment that starts from a fresh map.
MapSetFresh(result, key, value) == [k \in {key} |-> value]

MapSet(result, key, value) ==
    [k \in (DOMAIN result) \cup {key} |-> IF k = key THEN value ELSE result[k]]

\* Process.Error: an error that names the message it is about.
ProcessError(p, text) == ErrorsNew(p.Message.Title \o <<": ">> \o text)

\* base64url(sha256(url)), collision-free.
UrlHash(url) == <<"b64sha256", url>>

AuditPath(tempFolder, url) == tempFolder \o <<"/audit-", UrlHash(url)>>

validateMessageNoEndpoint(msg) ==
    IF msg.Title = EmptyString
      THEN ErrorsNew(<<"message does not have a title">>)
    ELSE IF msg.SourceURL = EmptyString
      THEN ErrorsNew(msg.Title \o <<": source url is empty">>)
    ELSE IF msg.SourceType = EmptyString
      THEN ErrorsNew(msg.Title \o <<": source type is empty (e.g. zip, git)">>)
    ELSE NoError

validateMessage(msg) ==
    IF msg.Title = EmptyString
      THEN ErrorsNew(<<"message does not have a title">>)
    ELSE IF msg.ResponseAPIEndpoint = EmptyString
      THEN ErrorsNew(msg.Title \o <<": does not provide an endpoint">>)
    ELSE IF msg.SourceURL = EmptyString
      THEN ErrorsNew(msg.Title \o <<": source url is empty">>)
    ELSE IF msg.SourceType = EmptyString
      THEN ErrorsNew(msg.Title \o <<": source type is empty (e.g. zip, git)">>)
    ELSE NoError

NoSourceManagerText == <<"could not get appropriate source manager to handle ingest">>
NoChecksumText == <<"could not calculate project checksum">>

\* Ingest.Do: the struct after the call, and the error returned.
Do(g) ==
    LET sm == IF GetKind(g.Message.SourceURL) = <<"zip">>
                THEN NewZip(g.Message.SourceURL)
                ELSE g.sourceManager
        g1 == [g EXCEPT !.sourceManager = sm]
    IN IF sm.isNil
         THEN [ig |-> g1, err |-> ProcessError(g1, NoSourceManagerText)]
       ELSE
         LET g2 == [g1 EXCEPT !.FilesPath = AuditPath(g.TempFolder, g.Message.SourceURL)]
             pf == PrepareFiles(sm, g2.FilesPath)
             g3 == [g2 EXCEPT !.sourceManager = pf.m]
             checksum == GetChecksum(pf.m)
         IN IF pf.err # NoError THEN [ig |-> g3, err |-> pf.err]
            ELSE IF checksum = EmptyString
              THEN [ig |-> g3, err |-> ProcessError(g3, NoChecksumText)]
            ELSE [ig |-> [g3 EXCEPT !.Result =
                             MapSet(MapSet(MapSet(g3.Result,
                                 "checksum", checksum),
                                 "files", GetFiles(pf.m)),
                                 "filesPath", g3.FilesPath)],
                  err |-> NoError]

StagePrefix == <<"Ingest Error: ">>

StageErrorNoPrefix(err) == ErrorsNew(err)

\* errors.New("Ingest Error: " + err.Error())
StageError(err) == ErrorsNew(StagePrefix \o err)

ErrcSend(err) == [ch |-> "errc", err |-> err]
OutSend == [ch |-> "out", err |-> NoError]

\* One iteration of the worker's loop without the `continue` after a failed Do.
RunStepNoContinue(g, msg) ==
    LET g1 == [g EXCEPT !.Result = EmptyResult]
        verr == validateMessage(msg)
        d == Do([g1 EXCEPT !.Message = msg])
    IN IF verr # NoError
         THEN [ig |-> g1, sends |-> <<ErrcSend(StageError(verr))>>, did |-> FALSE]
       ELSE IF d.err # NoError
         THEN [ig |-> d.ig, sends |-> <<ErrcSend(StageError(d.err)), OutSend>>, did |-> TRUE]
       ELSE [ig |-> d.ig, sends |-> <<OutSend>>, did |-> TRUE]

\* One iteration of the worker's loop, from the message received on In up to
\* the channel sends it has to complete: the struct after it, the sends, and
\* whether Do was invoked.
RunStep(g, msg) ==
    LET g1 == [g EXCEPT !.Result = EmptyResult]
        verr == validateMessage(msg)
        d == Do([g1 EXCEPT !.Message = msg])
    IN IF verr # NoError
         THEN [ig |-> g1, sends |-> <<ErrcSend(StageError(verr))>>, did |-> FALSE]
       ELSE IF d.err # NoError
         THEN [ig |-> d.ig, sends |-> <<ErrcSend(StageError(d.err))>>, did |-> TRUE]
       ELSE [ig |-> d.ig, sends |-> <<OutSend>>, did |-> TRUE]

\* `*errc <- err`: whether the send completes, given whether a receiver is ready.
ErrcSendCompletesNonBlocking(listening) == TRUE

ErrcSendCompletes(listening) == listening

IngestRunCheckNoOut(g) ==
    IF g.TempFolder = EmptyString
      THEN ErrorsNew(<<"no temp folder provided for processes">>)
    ELSE IF g.In = "nil"
      THEN ErrorsNew(<<"no message channel to ingest">>)
    ELSE NoError

\* The checks Ingest.Run makes before it starts the worker.
IngestRunCheck(g) ==
    IF g.TempFolder = EmptyString
      THEN ErrorsNew(<<"no temp folder provided for processes">>)
    ELSE IF g.In = "nil"
      THEN ErrorsNew(<<"no message channel to ingest">>)
    ELSE IF g.Out = "nil"
      THEN ErrorsNew(<<"requires a next process">>)
    ELSE NoError

\* The checks Phpcs.Run makes, as the table of TestPhpcs_Run fixes them.
PhpcsRunCheck(c) ==
    IF c.In = "nil" \/ c.Out = "nil" \/ c.TempFolder = EmptyString
       \/ c.StorageProvider = "nil" \/ c.PhpcsVersions = "nil"
      THEN ErrorsNew(<<"phpcs: missing dependency">>)
      ELSE NoError

-----------------------------------------------------------------------------
(* The pipeline: one stage, its producer, its consumer and the error listener *)

NewIngest(tempFolder, in, out) ==
    [TempFolder |-> tempFolder, In |-> in, Out |-> out,
     Message |-> ZeroMessage, Result |-> EmptyResult, FilesPath |-> EmptyString,
     sourceManager |-> NilSource]

NewPhpcs(tempFolder, in, out, storage, versions) ==
    [TempFolder |-> tempFolder, In |-> in, Out |-> out,
     StorageProvider |-> storage, PhpcsVersions |-> versions]

Chans == {"nil", "chan"}

NoCall == [op |-> "none"]
NoRet == [done |-> FALSE]

Idle ==
    /\ called = FALSE /\ runRet = NoError /\ started = FALSE
    /\ cancelled = FALSE
    /\ arrivals = <<>> /\ todo = <<>> /\ outLog = <<>> /\ errLog = <<>>
    /\ doCalls = {}
    /\ csLog = [received |-> 0, out |-> 0, errs |-> 0]

Init ==
    /\ stage \in {"Ingest", "Phpcs"}
    /\ ig \in {NewIngest(t, i, o) :
                 t \in {EmptyString, TempDir}, i \in Chans, o \in Chans}
    /\ cs \in {NewPhpcs(t, i, o, sp, v) :
                 t \in {EmptyString, TempDir}, i \in Chans, o \in Chans,
                 sp \in {"nil", "set"}, v \in {"nil", "empty", "set"}}
    /\ stage = "Ingest" => cs = NewPhpcs(TempDir, "chan", "chan", "set", "set")
    /\ stage = "Phpcs" => ig = NewIngest(TempDir, "chan", "chan")
    /\ errListener \in BOOLEAN
    /\ Idle
    /\ fnArgs = NoCall /\ fnRet = NoRet

\* Run: the configuration checks, then the worker is started.
Run ==
    /\ ~called
    /\ called' = TRUE
    /\ runRet' = IF stage = "Ingest" THEN IngestRunCheck(ig) ELSE PhpcsRunCheck(cs)
    /\ started' = (runRet' = NoError)
    /\ UNCHANGED <<stage, ig, cs, errListener, cancelled, arrivals, todo, outLog,
                   errLog, doCalls, csLog, fnArgs, fnRet>>

\* The worker takes msg from In and runs the iteration up to its channel send.
Receive(msg) ==
    /\ stage = "Ingest" /\ started
    /\ todo = <<>>
    /\ Len(arrivals) < MaxMsgs
    /\ LET r == RunStep(ig, msg)
       IN /\ ig' = r.ig
          /\ todo' = r.sends
          /\ doCalls' = IF r.did THEN doCalls \cup {Len(arrivals) + 1} ELSE doCalls
    /\ arrivals' = Append(arrivals, msg)
    /\ UNCHANGED <<stage, called, runRet, started, cs, errListener, cancelled,
                   outLog, errLog, csLog, fnArgs, fnRet>>

\* The record the downstream stage reads through the pointer it received.
Snapshot ==
    [id |-> Len(arrivals), Message |-> ig.Message, Result |-> ig.Result,
     FilesPath |-> ig.FilesPath]

\* `ig.Out <- ig` completes: the downstream stage receives the record.
CompleteOut ==
    /\ todo # <<>> /\ Head(todo).ch = "out"
    /\ outLog' = Append(outLog, Snapshot)
    /\ todo' = Tail(todo)
    /\ UNCHANGED <<stage, called, runRet, started, ig, cs, errListener, cancelled,
                   arrivals, errLog, doCalls, csLog, fnArgs, fnRet>>

\* `*errc <- err` completes.
CompleteErr ==
    /\ todo # <<>> /\ Head(todo).ch = "errc"
    /\ ErrcSendCompletes(errListener)
    /\ errLog' = IF errListener
                   THEN Append(errLog, [id |-> Len(arrivals), err |-> Head(todo).err])
                   ELSE errLog
    /\ todo' = Tail(todo)
    /\ UNCHANGED <<stage, called, runRet, started, ig, cs, errListener, cancelled,
                   arrivals, outLog, doCalls, csLog, fnArgs, fnRet>>

\* The owner of the context cancels it.
Cancel ==
    /\ ~cancelled
    /\ cancelled' = TRUE
    /\ UNCHANGED <<stage, called, runRet, started, ig, cs, errListener,
                   arrivals, todo, outLog, errLog, doCalls, csLog, fnArgs, fnRet>>

\* The Phpcs worker handles one record: it forwards it or reports an error.
PhpcsStep(ok) ==
    /\ stage = "Phpcs" /\ started /\ ~cancelled
    /\ csLog.received < MaxMsgs
    /\ csLog' = [received |-> csLog.received + 1,
                 out |-> csLog.out + (IF ok THEN 1 ELSE 0),
                 errs |-> csLog.errs + (IF ok THEN 0 ELSE 1)]
    /\ UNCHANGED <<stage, called, runRet, started, ig, cs, errListener, cancelled,
                   arrivals, todo, outLog, errLog, doCalls, fnArgs, fnRet>>

Next ==
    \/ Run
    \/ \E msg \in Messages : Receive(msg)
    \/ CompleteOut
    \/ CompleteErr
    \/ Cancel
    \/ \E ok \in BOOLEAN : PhpcsStep(ok)

Spec == Init /\ [][Next]_vars

-----------------------------------------------------------------------------
(* Direct calls of Ingest.Do on a struct that already holds results *)

OldPath == AuditPath(TempDir, <<"old.zip">>)

ReservedKeys == {"checksum", "files", "filesPath"}

OldValue(k) ==
    IF k = "checksum" THEN combinedChecksum(<<MaxDigest>>)
    ELSE IF k = "files" THEN <<FilepathJoin(OldPath \o <<"/unzipped">>, <<"z">>)>>
    ELSE IF k = "filesPath" THEN OldPath
    ELSE <<"plugin">>

PreResults == {[k \in ks |-> OldValue(k)] : ks \in SUBSET (ReservedKeys \cup {"info"})}

StaleSource == PrepareFiles(NewZip(<<"a.zip">>), AuditPath(TempDir, <<"a.zip">>)).m

DoInputs ==
    {[NewIngest(TempDir, "chan", "chan") EXCEPT
         !.Message = m, !.Result = r, !.sourceManager = sm] :
       m \in Messages, r \in PreResults, sm \in {NilSource, StaleSource}}

InitDo ==
    /\ stage = "Ingest"
    /\ ig = NewIngest(TempDir, "chan", "chan")
    /\ cs = NewPhpcs(TempDir, "chan", "chan", "set", "set")
    /\ errListener = TRUE
    /\ Idle
    /\ fnArgs \in {[op |-> "Do", ig |-> g] : g \in DoInputs}
    /\ fnRet = NoRet

CallDo ==
    /\ fnArgs.op = "Do" /\ ~fnRet.done
    /\ LET d == Do(fnArgs.ig)
       IN fnRet' = [done |-> TRUE, ig |-> d.ig, err |-> d.err]
    /\ UNCHANGED <<stage, called, runRet, started, ig, cs, errListener, cancelled,
                   arrivals, todo, outLog, errLog, doCalls, csLog, fnArgs>>

NextDo == CallDo

SpecDo == InitDo /\ [][NextDo]_vars

-----------------------------------------------------------------------------
(* Direct calls of combinedChecksum on two lists of digests *)

Digests == 0..MaxDigest

DigestLists == UNION {[1..n -> Digests] : n \in 0..MaxSums}

InitChecksum ==
    /\ stage = "Ingest"
    /\ ig = NewIngest(TempDir, "chan", "chan")
    /\ cs = NewPhpcs(TempDir, "chan", "chan", "set", "set")
    /\ errListener = TRUE
    /\ Idle
    /\ fnArgs \in {[op |-> "combinedChecksum", a |-> s, b |-> t] :
                     s \in DigestLists, t \in DigestLists}
    /\ fnRet = NoRet

CallChecksum ==
    /\ fnArgs.op = "combinedChecksum" /\ ~fnRet.done
    /\ fnRet' = [done |-> TRUE, a |-> combinedChecksum(fnArgs.a),
                 b |-> combinedChecksum(fnArgs.b)]
    /\ UNCHANGED <<stage, called, runRet, started, ig, cs, errListener, cancelled,
                   arrivals, todo, outLog, errLog, doCalls, csLog, fnArgs>>

NextChecksum == CallChecksum

SpecChecksum == InitChecksum /\ [][NextChecksum]_vars

-----------------------------------------------------------------------------
(* Properties *)

OutIds == {outLog[j].id : j \in DOMAIN outLog}
ErrIds == {errLog[j].id : j \in DOMAIN errLog}

Count(log, i) == Cardinality({j \in DOMAIN log : log[j].id = i})

\* The item the worker is still handling: received, its send not completed.
InHand(i) == i = Len(arrivals) /\ todo # <<>>

MissingDependency ==
    IF stage = "Ingest"
      THEN ig.TempFolder = EmptyString \/ ig.In = "nil" \/ ig.Out = "nil"
      ELSE \/ cs.In = "nil" \/ cs.Out = "nil" \/ cs.TempFolder = EmptyString
           \/ cs.StorageProvider = "nil" \/ cs.PhpcsVersions = "nil"

NoWorkerActivity ==
    /\ ~started
    /\ arrivals = <<>> /\ todo = <<>> /\ outLog = <<>> /\ errLog = <<>>
    /\ csLog.received = 0 /\ csLog.out = 0 /\ csLog.errs = 0

\* C1: Run returns a non-nil error exactly when a required dependency is
\* missing, and then no worker is started and nothing is received or sent;
\* with every dependency present Run returns nil, and stays nil whatever the
\* worker later reports on the error channel.
C1_RunFailsIffDependencyMissing ==
    /\ called => ((runRet # NoError) <=> MissingDependency)
    /\ (~called \/ runRet # NoError) => NoWorkerActivity
    /\ (called /\ ~MissingDependency) => (started /\ runRet = NoError)

C1_Witness ==
    /\ called /\ stage = "Ingest" /\ ig.Out = "nil" /\ ig.In = "chan"
    /\ ig.TempFolder # EmptyString /\ runRet # NoError

\* C2: every message the worker received has exactly one outcome: the record
\* was sent once on Out and no error was published, or one error with the
\* prefix "Ingest Error: " was published and the record was not sent; while
\* the outcome's send is pending nothing else is, and the worker receives
\* again only when it is complete.
C2_ExactlyOneOutcomePerMessage ==
    /\ \A i \in 1..Len(arrivals) :
          IF InHand(i)
            THEN Count(outLog, i) + Count(errLog, i) = 0 /\ Len(todo) = 1
            ELSE Count(outLog, i) + Count(errLog, i) = 1
    /\ \A i \in OutIds : validateMessage(arrivals[i]) = NoError /\ i \in doCalls
    /\ \A j \in DOMAIN errLog :
          Len(errLog[j].err) > 1 /\ SubSeq(errLog[j].err, 1, 1) = StagePrefix
    /\ (todo # <<>> /\ Head(todo).ch = "errc") =>
          SubSeq(Head(todo).err, 1, 1) = StagePrefix

C2_Witness ==
    /\ todo = <<>> /\ Len(arrivals) = 2
    /\ Count(outLog, 1) = 1 /\ Count(errLog, 2) = 1
    /\ validateMessage(arrivals[2]) = NoError

C4_NoActivityAfterCancel ==
    [][cancelled => (arrivals' = arrivals /\ outLog' = outLog)]_vars

\* C5: what was sent on Out is a subsequence of the arrivals: each record
\* carries the message of one arrival, records appear in arrival order with
\* none repeated, and an item whose error was published is absent.
C5_OutIsSubsequenceOfArrivals ==
    /\ \A j \in DOMAIN outLog :
          /\ outLog[j].id \in 1..Len(arrivals)
          /\ outLog[j].Message = arrivals[outLog[j].id]
    /\ \A j, k \in DOMAIN outLog : j < k => outLog[j].id < outLog[k].id
    /\ OutIds \cap ErrIds = {}
    /\ \A i \in 1..Len(arrivals) :
          (InHand(i) /\ Head(todo).ch = "errc") => i \notin OutIds

C5_Witness ==
    /\ Len(arrivals) = 3 /\ todo = <<>>
    /\ OutIds = {1, 3} /\ ErrIds = {2}
    /\ arrivals[1] # arrivals[3]

ValidationErrorOf(msg) == StageError(validateMessage(msg))

Rejected(i) ==
    /\ i \notin OutIds
    /\ i \notin doCalls
    /\ \/ \E j \in DOMAIN errLog :
            errLog[j].id = i /\ errLog[j].err = ValidationErrorOf(arrivals[i])
       \/ InHand(i) /\ todo = <<ErrcSend(ValidationErrorOf(arrivals[i]))>>

\* C6 as stated: a message with an empty title, slug, source_url, source_type
\* or response_endpoint, or with no audits, is rejected with a validation
\* error, is not forwarded, and Do is not invoked for it.
C6_RejectsEveryRequiredFieldViolation ==
    \A i \in 1..Len(arrivals) :
       LET m == arrivals[i]
       IN (\/ m.Title = EmptyString \/ m.Slug = EmptyString
           \/ m.SourceURL = EmptyString \/ m.SourceType = EmptyString
           \/ m.ResponseAPIEndpoint = EmptyString \/ m.Audits = <<>>)
          => Rejected(i)

\* C6 as amended: a message with an empty title, source_url, source_type or
\* response_endpoint is rejected with a validation error, is not forwarded,
\* and Do is not invoked for it; the slug and the audits are not checked: a
\* message whose other four fields are set is passed to Do.
C6_RejectsEmptyTitleUrlTypeEndpoint ==
    \A i \in 1..Len(arrivals) :
       LET m == arrivals[i]
       IN IF \/ m.Title = EmptyString \/ m.SourceURL = EmptyString
             \/ m.SourceType = EmptyString \/ m.ResponseAPIEndpoint = EmptyString
            THEN Rejected(i)
            ELSE i \in doCalls

C6_Witness ==
    /\ Len(arrivals) = 2 /\ todo = <<>>
    /\ arrivals[1].ResponseAPIEndpoint = EmptyString /\ 1 \in ErrIds
    /\ arrivals[2].Slug = EmptyString /\ 2 \in OutIds

\* C7: a message whose source is not of a supported kind is never forwarded,
\* and the error published for it is the 'no source manager' error, whatever
\* messages came before it.
C7_UnsupportedKindNeverForwarded ==
    \A i \in 1..Len(arrivals) :
       LET m == arrivals[i]
       IN (validateMessage(m) = NoError /\ GetKind(m.SourceURL) # <<"zip">>) =>
             /\ i \notin OutIds
             /\ \A j \in DOMAIN errLog :
                   errLog[j].id = i =>
                      errLog[j].err = StagePrefix \o m.Title \o <<": ">> \o NoSourceManagerText

\* C8: every record sent on Out has checksum, files and filesPath present and
\* non-empty.
C8_ForwardedResultPopulated ==
    \A j \in DOMAIN outLog :
       LET r == outLog[j].Result
       IN /\ ReservedKeys \subseteq DOMAIN r
          /\ r["checksum"] # EmptyString
          /\ r["files"] # <<>>
          /\ r["filesPath"] # EmptyString

\* C9 as stated: every key present before Do is present with the same value
\* after Do returns, on success and on failure.
C9_DoKeepsEveryKey ==
    fnRet.done =>
       \A k \in DOMAIN fnArgs.ig.Result :
          /\ k \in DOMAIN fnRet.ig.Result
          /\ fnRet.ig.Result[k] = fnArgs.ig.Result[k]

\* C9 as amended: every key other than checksum, files and filesPath that is
\* present before Do is present with the same value after it; a failed Do
\* leaves the whole map as it was; a successful Do sets checksum, files and
\* filesPath to the values of this run, replacing any value they had.
C9_DoKeepsEveryOtherKey ==
    fnRet.done =>
       LET pre == fnArgs.ig.Result
           post == fnRet.ig.Result
       IN /\ \A k \in (DOMAIN pre) \ ReservedKeys :
                k \in DOMAIN post /\ post[k] = pre[k]
          /\ fnRet.err # NoError => post = pre
          /\ fnRet.err = NoError =>
                /\ DOMAIN post = (DOMAIN pre) \cup ReservedKeys
                /\ post["checksum"] = GetChecksum(fnRet.ig.sourceManager)
                /\ post["files"] = GetFiles(fnRet.ig.sourceManager)
                /\ post["filesPath"] = fnRet.ig.FilesPath

C9_Witness ==
    /\ fnRet.done /\ fnRet.err = NoError
    /\ DOMAIN fnArgs.ig.Result = ReservedKeys \cup {"info"}
    /\ fnRet.ig.Result["checksum"] # fnArgs.ig.Result["checksum"]
    /\ fnRet.ig.Result["info"] = <<"plugin">>

Occurrences(s, d) == Cardinality({j \in DOMAIN s : s[j] = d})

IsPermutation(s, t) ==
    Len(s) = Len(t) /\ \A d \in Digests : Occurrences(s, d) = Occurrences(t, d)

\* C10: two lists of per-file digests that are permutations of each other
\* have the same combined checksum.
C10_ChecksumPermutationInvariant ==
    (fnRet.done /\ IsPermutation(fnArgs.a, fnArgs.b)) => fnRet.a = fnRet.b

C10_Witness ==
    /\ fnRet.done /\ IsPermutation(fnArgs.a, fnArgs.b)
    /\ fnArgs.a # fnArgs.b /\ Len(fnArgs.a) = MaxSums
    /\ fnRet.a = fnRet.b

-----------------------------------------------------------------------------
(* phpcompat: versions *)

\* A version string is the sequence of its dot-separated components, each a
\* string: "5.2.17" is <<"5", "2", "17">>, "all" is <<"all">>, "" is <<>>.

\* The decimal numerals strconv reads and writes, "0" first.
Numerals == <<"0", "1", "2", "3", "4", "5", "6", "7", "8", "9", "10", "11", "12", "13", "14", "15", "16", "17", "18", "19", "20", "21", "22", "23", "24", "25", "26", "27", "28", "29", "30", "31", "32", "33", "34", "35", "36", "37", "38", "39", "40", "41", "42", "43", "44", "45", "46", "47", "48", "49", "50">>

IsNumeral(s) == \E n \in DOMAIN Numerals : Numerals[n] = s

\* strconv.Atoi with its error dropped: 0 for what is no numeral.
Atoi(s) == IF IsNumeral(s) THEN (CHOOSE n \in DOMAIN Numerals : Numerals[n] = s) - 1 ELSE 0

\* strconv.Itoa.
Itoa(n) == IF n + 1 \in DOMAIN Numerals THEN Numerals[n + 1] ELSE "-1"

\* strings.Split(s, "."): the empty string splits into one empty component.
Split(s) == IF s = EmptyString THEN <<"">> ELSE s

\* strings.Join(parts, ".")
Join(parts) == IF parts = <<"">> THEN EmptyString ELSE parts

CatalogueKeys ==
    << <<"5", "2">>, <<"5", "3">>, <<"5", "4">>, <<"5", "5">>, <<"5", "6">>,
       <<"7", "0">>, <<"7", "1">>, <<"7", "2">>, <<"7", "3">> >>

CatalogueMax ==
    << <<"5", "2", "17">>, <<"5", "3", "29">>, <<"5", "4", "45">>,
       <<"5", "5", "38">>, <<"5", "6", "40">>, <<"7", "0", "33">>,
       <<"7", "1", "31">>, <<"7", "2", "21">>, <<"7", "3", "8">> >>

InCatalogue(majorMinor) == \E i \in DOMAIN CatalogueKeys : CatalogueKeys[i] = majorMinor

\* phpVersions[majorMinor]["max"]: the empty string for a key the map lacks.
MaxPatch(majorMinor) ==
    IF InCatalogue(majorMinor)
      THEN CatalogueMax[CHOOSE i \in DOMAIN CatalogueKeys : CatalogueKeys[i] = majorMinor]
      ELSE EmptyString

PhpLatest == <<"7", "3", "8">>

Returned(value) == [panics |-> FALSE, ret |-> value]
Panicked == [panics |-> TRUE, ret |-> EmptyString]

IsFloorShortOnly(version) == version = <<"5", "2">>

\* The versions PreviousVersion keeps at 5.2.0.
IsFloor(version) == version = <<"5", "2">> \/ version = <<"5", "2", "0">>

MajorBoundaryWrong(majorMinor) == IF majorMinor = <<"7", "0">> THEN <<"5", "5">> ELSE EmptyString

\* The switch that crosses a major boundary: the minor before X.0.
MajorBoundary(majorMinor) == IF majorMinor = <<"7", "0">> THEN <<"5", "6">> ELSE EmptyString

\* PreviousVersion: the value returned, or a panic (an index out of range).
PreviousVersion(version) ==
    IF version = <<"all">> THEN Returned(version)
    ELSE IF IsFloor(version) THEN Returned(<<"5", "2", "0">>)
    ELSE
      LET split == Split(version)
          parts == IF Len(split) < 3 THEN Append(split, "0") ELSE split
      IN IF Len(parts) < 2 THEN Panicked
         ELSE
           LET maxPrev ==
                 IF parts[2] = "0"
                   THEN Split(MaxPatch(MajorBoundary(<<parts[1], parts[2]>>)))
                   ELSE Split(MaxPatch(<<parts[1], Itoa(Atoi(parts[2]) - 1)>>))
           IN IF Len(parts) < 3 THEN Panicked
              ELSE
                LET p3 == Atoi(parts[3]) - 1
                IN IF p3 < 0
                     THEN IF Len(maxPrev) < 3 THEN Panicked
                          ELSE IF parts[2] = "0"
                            THEN Returned(Join([parts EXCEPT ![3] = maxPrev[3],
                                                            ![2] = maxPrev[2],
                                                            ![1] = maxPrev[1]]))
                            ELSE Returned(Join([parts EXCEPT ![3] = maxPrev[3],
                                                            ![2] = Itoa(Atoi(parts[2]) - 1)]))
                     ELSE Returned(Join([parts EXCEPT ![3] = Itoa(p3)]))

\* semver.Make succeeds on three numeric components.
SemverValid(v) == Len(v) = 3 /\ \A i \in 1..3 : IsNumeral(v[i])

\* The parsed version, 0.0.0 when semver.Make failed and its error was dropped.
SemverMake(v) ==
    IF SemverValid(v) THEN <<Atoi(v[1]), Atoi(v[2]), Atoi(v[3])>> ELSE <<0, 0, 0>>

\* Version.LT and Version.LE on parsed versions.
SemverLT(a, b) ==
    \/ a[1] < b[1]
    \/ a[1] = b[1] /\ a[2] < b[2]
    \/ a[1] = b[1] /\ a[2] = b[2] /\ a[3] < b[3]

SemverLE(a, b) == a = b \/ SemverLT(a, b)

-----------------------------------------------------------------------------
(* Repeated calls of PreviousVersion, each on the result of the one before *)

PatchVersions(i) ==
    {CatalogueKeys[i] \o <<Itoa(z)>> : z \in 0..Atoi(CatalogueMax[i][3])}

VersionInputs ==
    {<<"all">>}
    \cup {CatalogueKeys[i] : i \in DOMAIN CatalogueKeys}
    \cup UNION {PatchVersions(i) : i \in DOMAIN CatalogueKeys}
    \cup {<<"8", "0">>, <<"6", "0", "0">>, <<"5", "1">>, <<"7", "5", "0">>,
          <<"8", "0", "1">>, <<"7", "4", "2">>}

\* How many times the caller applies PreviousVersion: Z+1 times from X.Y.Z.
CallsFrom(version) == IF Len(version) = 3 THEN Atoi(version[3]) + 1 ELSE 1

InitPrev ==
    /\ stage = "Ingest"
    /\ ig = NewIngest(TempDir, "chan", "chan")
    /\ cs = NewPhpcs(TempDir, "chan", "chan", "set", "set")
    /\ errListener = TRUE
    /\ Idle
    /\ fnArgs \in {[op |-> "PreviousVersion", version |-> v] : v \in VersionInputs}
    /\ fnRet = [done |-> FALSE, calls |-> 0, panics |-> FALSE,
                first |-> EmptyString, ret |-> fnArgs.version]

CallPreviousVersion ==
    /\ fnArgs.op = "PreviousVersion"
    /\ ~fnRet.panics
    /\ fnRet.calls < CallsFrom(fnArgs.version)
    /\ LET r == PreviousVersion(fnRet.ret)
       IN fnRet' = [done |-> TRUE, calls |-> fnRet.calls + 1, panics |-> r.panics,
                    first |-> IF fnRet.calls = 0 THEN r.ret ELSE fnRet.first,
                    ret |-> r.ret]
    /\ UNCHANGED <<stage, called, runRet, started, ig, cs, errListener, cancelled,
                   arrivals, todo, outLog, errLog, doCalls, csLog, fnArgs>>

NextPrev == CallPreviousVersion

SpecPrev == InitPrev /\ [][NextPrev]_vars

IsPatchOf(version, majorMinor) ==
    Len(version) = 3 /\ <<version[1], version[2]>> = majorMinor /\ IsNumeral(version[3])

\* C11 as stated: every version whose major.minor is 5.2 has the predecessor
\* 5.2.0.
C11_Every52VersionFloors ==
    (fnRet.calls >= 1
       /\ (fnArgs.version = <<"5", "2">> \/ IsPatchOf(fnArgs.version, <<"5", "2">>)))
    => (~fnRet.panics /\ fnRet.first = <<"5", "2", "0">>)

\* C11 as amended: "5.2" and "5.2.0" have the predecessor 5.2.0; 5.2.Z with
\* Z > 0 has the predecessor 5.2.(Z-1); so the predecessor of a 5.2 version
\* is a 5.2 version, never below 5.2.0.
C11_FloorAt520 ==
    (fnRet.calls >= 1
       /\ (fnArgs.version = <<"5", "2">> \/ IsPatchOf(fnArgs.version, <<"5", "2">>)))
    => /\ ~fnRet.panics
       /\ fnRet.first =
            IF fnArgs.version = <<"5", "2">> \/ fnArgs.version = <<"5", "2", "0">>
              THEN <<"5", "2", "0">>
              ELSE <<"5", "2", Itoa(Atoi(fnArgs.version[3]) - 1)>>
       /\ SemverValid(fnRet.ret)
       /\ SemverLE(<<5, 2, 0>>, SemverMake(fnRet.ret))

C11_Witness ==
    /\ fnArgs.version = <<"5", "2", "0">> /\ fnRet.calls = 1
    /\ fnRet.ret = <<"5", "2", "0">>

\* The minor the claim names before X.Y: X.(Y-1), and 5.6 before 7.0.
MinorBefore(majorMinor) ==
    IF Atoi(majorMinor[2]) > 0
      THEN <<majorMinor[1], Itoa(Atoi(majorMinor[2]) - 1)>>
      ELSE IF majorMinor = <<"7", "0">> THEN <<"5", "6">> ELSE EmptyString

SteppedDown(majorMinor) ==
    LET z == Atoi(fnArgs.version[3])
    IN /\ ~fnRet.panics
       /\ fnRet.calls >= 1 => fnRet.first = majorMinor \o <<Itoa(z - 1)>>
       /\ fnRet.calls \in 1..z => fnRet.ret = majorMinor \o <<Itoa(z - fnRet.calls)>>

\* C12 as stated: for every catalogue minor X.Y and Z > 0 the predecessor of
\* X.Y.Z is X.Y.(Z-1), and Z+1 applications from X.Y.Z end at the highest
\* patch of the minor before X.Y.
C12_StepsToPreviousMinorMax ==
    \A i \in DOMAIN CatalogueKeys :
       (IsPatchOf(fnArgs.version, CatalogueKeys[i]) /\ Atoi(fnArgs.version[3]) > 0)
       => /\ SteppedDown(CatalogueKeys[i])
          /\ fnRet.calls = Atoi(fnArgs.version[3]) + 1 =>
                fnRet.ret = MaxPatch(MinorBefore(CatalogueKeys[i]))

\* C12 as amended: the same for every catalogue minor but 5.2; from 5.2.Z the
\* Z+1 applications end at 5.2.0, the floor, as 5.2 has no minor before it.
C12_StepsToPreviousMinorMaxOrFloor ==
    \A i \in DOMAIN CatalogueKeys :
       (IsPatchOf(fnArgs.version, CatalogueKeys[i]) /\ Atoi(fnArgs.version[3]) > 0)
       => /\ SteppedDown(CatalogueKeys[i])
          /\ fnRet.calls = Atoi(fnArgs.version[3]) + 1 =>
                fnRet.ret = IF i = 1 THEN <<"5", "2", "0">> ELSE CatalogueMax[i - 1]

C12_Witness ==
    /\ fnArgs.version = <<"7", "0", "2">> /\ fnRet.calls = 3
    /\ fnRet.ret = <<"5", "6", "40">>

\* X.Y.0 (or X.Y) that is not the floor and has no declared minor before it.
BelowUndeclaredMinor(version) ==
    /\ Len(version) \in {2, 3}
    /\ Len(version) = 3 => version[3] = "0"
    /\ ~(version = <<"5", "2">> \/ version = <<"5", "2", "0">>)
    /\ ~InCatalogue(MinorBefore(<<version[1], version[2]>>))

\* C17: when PreviousVersion must step below a minor whose predecessor the
\* catalogue does not declare (8.0, 6.0.0, 5.1), it ends with an outcome the
\* caller can report rather than crashing.
C17_UnknownBoundaryIsReported ==
    (fnRet.calls >= 1 /\ BelowUndeclaredMinor(fnArgs.version))
    => ~fnRet.panics

-----------------------------------------------------------------------------
(* GetVersionParts on a version and an optional lower bound *)

\* GetVersionParts(version, lowIn): low, high, majorMinor and reported.
GetVersionParts(version, lowIn) ==
    LET vParts == Split(version)
        majorMinor0 == IF Len(vParts) > 1 THEN <<vParts[1], vParts[2]>> ELSE <<"all">>
        high0 == IF Len(vParts) # 1 /\ Len(vParts) # 3 THEN MaxPatch(majorMinor0) ELSE version
        low0 == IF lowIn = EmptyString
                  THEN IF majorMinor0 # <<"all">> THEN majorMinor0 \o <<"0">> ELSE <<"all">>
                  ELSE IF Len(Split(lowIn)) = 2 THEN lowIn \o <<"0">> ELSE lowIn
        v == SemverMake(majorMinor0 \o <<"0">>)
        min == SemverMake(<<"5", "2", "0">>)
        clamp == SemverLT(v, min) /\ majorMinor0 # <<"all">>
    IN [low |-> IF clamp THEN <<"5", "2", "0">> ELSE low0,
        high |-> IF clamp THEN <<"5", "2", "0">> ELSE high0,
        majorMinor |-> IF clamp THEN <<"5", "2">> ELSE majorMinor0,
        reported |-> version]

\* Versions below the catalogue's first minor.
OldVersions == {<<"5", "1">>, <<"5", "0", "3">>, <<"4", "3">>}

PartsVersions ==
    {<<"all">>}
    \cup {CatalogueKeys[i] : i \in DOMAIN CatalogueKeys}
    \cup {CatalogueKeys[i] \o <<"0">> : i \in DOMAIN CatalogueKeys}
    \cup {CatalogueMax[i] : i \in DOMAIN CatalogueKeys}
    \cup OldVersions

LowerBounds ==
    {EmptyString, <<"5", "2">>, <<"5", "3">>, <<"5", "3", "0">>, <<"5", "6", "40">>,
     <<"7", "0">>, <<"7", "3", "8">>, <<"5", "1">>}

InitParts ==
    /\ stage = "Ingest"
    /\ ig = NewIngest(TempDir, "chan", "chan")
    /\ cs = NewPhpcs(TempDir, "chan", "chan", "set", "set")
    /\ errListener = TRUE
    /\ Idle
    /\ fnArgs \in {[op |-> "GetVersionParts", version |-> v, lowIn |-> l] :
                     v \in PartsVersions, l \in LowerBounds}
    /\ fnRet = [done |-> FALSE, low |-> EmptyString, high |-> EmptyString,
                majorMinor |-> EmptyString, reported |-> EmptyString]

CallGetVersionParts ==
    /\ fnArgs.op = "GetVersionParts"
    /\ ~fnRet.done
    /\ LET r == GetVersionParts(fnArgs.version, fnArgs.lowIn)
       IN fnRet' = [done |-> TRUE, low |-> r.low, high |-> r.high,
                    majorMinor |-> r.majorMinor, reported |-> r.reported]
    /\ UNCHANGED <<stage, called, runRet, started, ig, cs, errListener, cancelled,
                   arrivals, todo, outLog, errLog, doCalls, csLog, fnArgs>>

NextParts == CallGetVersionParts

SpecParts == InitParts /\ [][NextParts]_vars

\* C16: for every versioned input and every lower bound, the range has
\* low <= high in semantic-version order and reported is the input version;
\* an input below 5.2 gives low = high = 5.2.0 with majorMinor 5.2.
C16_RangeOrderedAndReportedKept ==
    (fnRet.done /\ fnArgs.version # <<"all">>)
    => /\ SemverValid(fnRet.low) /\ SemverValid(fnRet.high)
       /\ SemverLE(SemverMake(fnRet.low), SemverMake(fnRet.high))
       /\ fnRet.reported = fnArgs.version
       /\ fnArgs.version \in OldVersions =>
            /\ fnRet.low = <<"5", "2", "0">> /\ fnRet.high = <<"5", "2", "0">>
            /\ fnRet.majorMinor = <<"5", "2">>

-----------------------------------------------------------------------------
(* MergeVersions and ExcludeVersions on lists of major.minor strings *)

MaxList == 2

\* The bytes of a numeral, as digits.
NumeralChars(c) == IF Atoi(c) < 10 THEN <<Atoi(c)>> ELSE <<Atoi(c) \div 10, Atoi(c) % 10>>

\* The bytes of a version string; -1 stands for '.', which sorts before the digits.
RECURSIVE StringChars(_)
StringChars(version) ==
    IF version = <<>> THEN <<>>
    ELSE IF Len(version) = 1 THEN NumeralChars(version[1])
    ELSE NumeralChars(Head(version)) \o <<-1>> \o StringChars(Tail(version))

\* a < b as Go compares strings, byte by byte.
RECURSIVE CharsLess(_, _)
CharsLess(a, b) ==
    IF b = <<>> THEN FALSE
    ELSE IF a = <<>> THEN TRUE
    ELSE IF Head(a) # Head(b) THEN Head(a) < Head(b)
    ELSE CharsLess(Tail(a), Tail(b))

StringLess(a, b) == CharsLess(StringChars(a), StringChars(b))

RECURSIVE InsertVersion(_, _)
InsertVersion(x, sorted) ==
    IF sorted = <<>> THEN <<x>>
    ELSE IF ~StringLess(Head(sorted), x) THEN <<x>> \o sorted
    ELSE <<Head(sorted)>> \o InsertVersion(x, Tail(sorted))

\* sort.Strings on a list of version strings.
RECURSIVE SortVersions(_)
SortVersions(s) == IF s = <<>> THEN <<>> ELSE InsertVersion(Head(s), SortVersions(Tail(s)))

contains(slice, value) == \E i \in DOMAIN slice : slice[i] = value

\* The inner loop of MergeVersions: append the values merged does not hold.
RECURSIVE MergeSlice(_, _)
MergeSlice(merged, slice) ==
    IF slice = <<>> THEN merged
    ELSE MergeSlice(IF contains(merged, Head(slice)) THEN merged
                                                     ELSE Append(merged, Head(slice)),
                    Tail(slice))

\* MergeVersions(n...): the slices in turn, from an empty list.
RECURSIVE MergeFrom(_, _)
MergeFrom(merged, n) ==
    IF n = <<>> THEN merged ELSE MergeFrom(MergeSlice(merged, Head(n)), Tail(n))

MergeVersions(n) == MergeFrom(<<>>, n)

\* The loop of ExcludeVersions.
RECURSIVE ExcludeFrom(_, _, _)
ExcludeFrom(included, versions, exclude) ==
    IF versions = <<>> THEN included
    ELSE ExcludeFrom(IF ~contains(exclude, Head(versions)) /\ ~contains(included, Head(versions))
                       THEN Append(included, Head(versions))
                       ELSE included,
                     Tail(versions), exclude)

ExcludeVersions(versions, exclude) == SortVersions(ExcludeFrom(<<>>, versions, exclude))

MinorPool == {<<"5", "2">>, <<"5", "3">>, <<"5", "4">>, <<"10", "0">>}

VersionLists == UNION {[1..n -> MinorPool] : n \in 0..MaxList}

InitSets ==
    /\ stage = "Ingest"
    /\ ig = NewIngest(TempDir, "chan", "chan")
    /\ cs = NewPhpcs(TempDir, "chan", "chan", "set", "set")
    /\ errListener = TRUE
    /\ Idle
    /\ fnArgs \in {[op |-> o, a |-> a, b |-> b] :
                     o \in {"MergeVersions", "ExcludeVersions"},
                     a \in VersionLists, b \in VersionLists}
    /\ fnRet = [done |-> FALSE, ret |-> <<>>]

CallMergeVersions ==
    /\ fnArgs.op = "MergeVersions"
    /\ ~fnRet.done
    /\ fnRet' = [done |-> TRUE, ret |-> MergeVersions(<<fnArgs.a, fnArgs.b>>)]
    /\ UNCHANGED <<stage, called, runRet, started, ig, cs, errListener, cancelled,
                   arrivals, todo, outLog, errLog, doCalls, csLog, fnArgs>>

CallExcludeVersions ==
    /\ fnArgs.op = "ExcludeVersions"
    /\ ~fnRet.done
    /\ fnRet' = [done |-> TRUE, ret |-> ExcludeVersions(fnArgs.a, fnArgs.b)]
    /\ UNCHANGED <<stage, called, runRet, started, ig, cs, errListener, cancelled,
                   arrivals, todo, outLog, errLog, doCalls, csLog, fnArgs>>

NextSets == CallMergeVersions \/ CallExcludeVersions

SpecSets == InitSets /\ [][NextSets]_vars

Elements(list) == {list[i] : i \in DOMAIN list}

StrictlyAscending(list) ==
    \A i \in DOMAIN list : i > 1 => StringLess(list[i - 1], list[i])

\* C14: the outputs of MergeVersions and ExcludeVersions are strictly
\* ascending, so without duplicates; MergeVersions returns the union of its
\* arguments and ExcludeVersions(base, blocked) the elements of base that
\* blocked does not hold.
C14_SetOperationsSortedAndExact ==
    fnRet.done =>
      /\ StrictlyAscending(fnRet.ret)
      /\ fnArgs.op = "MergeVersions" =>
            Elements(fnRet.ret) = Elements(fnArgs.a) \cup Elements(fnArgs.b)
      /\ fnArgs.op = "ExcludeVersions" =>
            Elements(fnRet.ret) = Elements(fnArgs.a) \ Elements(fnArgs.b)

-----------------------------------------------------------------------------
(* BreaksVersions and NonBreakingVersions on one compatibility message *)

\* strings.ToLower on the message types.
ToLower(type) ==
    IF type \in {"ERROR", "Error", "error"} THEN "error"
    ELSE IF type \in {"WARNING", "Warning", "warning"} THEN "warning"
    ELSE IF type = "INFO" THEN "info"
    ELSE type

MessageTypes == {"ERROR", "error", "Error", "WARNING", "warning", "INFO", ""}

\* Sniff codes: the ones the parser has a rule for, and one it has none for.
KnownSources == {"PHPCompatibility.PHP.NewFunctions", "PHPCompatibility.PHP.RemovedFunctions"}
SniffSources == KnownSources \cup {"Generic.Files.LineLength"}

\* The versions a message text names.
TextVersions ==
    {<<"5", "3">>, <<"5", "4">>, <<"5", "6">>, <<"7", "0">>, <<"7", "3">>,
     <<"5", "3", "0">>, <<"5", "4", "10">>, <<"5", "1">>}

\* What a message text says: a pattern and the versions V and W in it.
MessageTexts ==
    {[pattern |-> "none", V |-> EmptyString, W |-> EmptyString]}
    \cup {[pattern |-> p, V |-> v, W |-> EmptyString] :
            p \in {"notPresent", "availableSince", "removedIn"}, v \in TextVersions}
    \cup {[pattern |-> "range", V |-> v, W |-> w] :
            v \in {<<"5", "3">>, <<"5", "6">>}, w \in {<<"5", "4">>, <<"7", "0">>, <<"7", "1", "5">>}}

CompatMessages ==
    {[Type |-> t, Source |-> c, Text |-> x] :
        t \in MessageTypes, c \in SniffSources, x \in MessageTexts}

NoRange == [Low |-> EmptyString, High |-> EmptyString, Reported |-> EmptyString,
            MajorMinor |-> EmptyString]

RangeOf(parts, reported) ==
    [Low |-> parts.low, High |-> parts.high, Reported |-> reported,
     MajorMinor |-> parts.majorMinor]

\* The version window a message text gives.
Window(text) ==
    IF text.pattern = "notPresent"
      THEN RangeOf(GetVersionParts(text.V, <<"5", "2">>), text.V)
    ELSE IF text.pattern = "availableSince"
      THEN RangeOf(GetVersionParts(PreviousVersion(text.V).ret, <<"5", "2">>), text.V)
    ELSE IF text.pattern = "removedIn"
      THEN RangeOf(GetVersionParts(PhpLatest, text.V), text.V)
    ELSE IF text.pattern = "range"
      THEN RangeOf(GetVersionParts(text.W, text.V), text.V)
    ELSE [Low |-> <<"5", "2", "0">>, High |-> PhpLatest, Reported |-> <<"all">>,
          MajorMinor |-> <<"all">>]

\* Parse: an error for a sniff code without a rule; otherwise the window,
\* as Breaks for an error message and as Warns for a warning.
Parse(message) ==
    IF message.Source \notin KnownSources
      THEN [panics |-> FALSE, err |-> TRUE, Breaks |-> NoRange, Warns |-> NoRange]
    ELSE IF message.Text.pattern = "availableSince" /\ PreviousVersion(message.Text.V).panics
      THEN [panics |-> TRUE, err |-> FALSE, Breaks |-> NoRange, Warns |-> NoRange]
    ELSE [panics |-> FALSE, err |-> FALSE,
          Breaks |-> IF ToLower(message.Type) = "error" THEN Window(message.Text) ELSE NoRange,
          Warns |-> IF ToLower(message.Type) = "warning" THEN Window(message.Text) ELSE NoRange]

IsErrorTypeOrWarning(type) == ToLower(type) \in {"error", "warning"}

\* The type test of BreaksVersions.
IsErrorType(type) == ToLower(type) = "error"

\* The type test of NonBreakingVersions.
IsWarningType(type) == ToLower(type) = "warning"

\* semver.ParseRange(">=low <=high") succeeds on two valid versions.
RangeValid(low, high) == SemverValid(low) /\ SemverValid(high)

FailRangeNoLow(low, high, v) == SemverLE(SemverMake(v), SemverMake(high))

\* The range function: low <= v <= high.
FailRange(low, high, v) ==
    SemverLE(SemverMake(low), SemverMake(v)) /\ SemverLE(SemverMake(v), SemverMake(high))

\* The loop over phpVersions: the keys whose max patch is in the range.
RECURSIVE KeysInRange(_, _, _)
KeysInRange(low, high, i) ==
    IF i > Len(CatalogueKeys) THEN <<>>
    ELSE (IF FailRange(low, high, CatalogueMax[i]) THEN <<CatalogueKeys[i]>> ELSE <<>>)
         \o KeysInRange(low, high, i + 1)

\* What both functions do with the range they picked: the sorted affected
\* minors, or a panic when the range string does not parse.
VersionsInRange(range) ==
    LET low == IF range.Reported = <<"all">> THEN <<"5", "2", "0">> ELSE range.Low
        high == IF range.Reported = <<"all">> THEN PhpLatest ELSE range.High
    IN IF ~RangeValid(low, high) THEN Panicked
       ELSE Returned(SortVersions(KeysInRange(low, high, 1)))

BreaksVersions(message) ==
    LET compat == Parse(message)
    IN IF compat.panics THEN Panicked
       ELSE IF compat.err \/ ~IsErrorType(message.Type) THEN Returned(<<>>)
       ELSE VersionsInRange(compat.Breaks)

NonBreakingVersions(message) ==
    LET compat == Parse(message)
    IN IF compat.panics THEN Panicked
       ELSE IF compat.err \/ ~IsWarningType(message.Type) THEN Returned(<<>>)
       ELSE VersionsInRange(compat.Warns)

NotCalled == [done |-> FALSE, panics |-> FALSE, ret |-> <<>>]

InitCompat ==
    /\ stage = "Ingest"
    /\ ig = NewIngest(TempDir, "chan", "chan")
    /\ cs = NewPhpcs(TempDir, "chan", "chan", "set", "set")
    /\ errListener = TRUE
    /\ Idle
    /\ fnArgs \in {[op |-> "Compat", message |-> m] : m \in CompatMessages}
    /\ fnRet = [breaks |-> NotCalled, warns |-> NotCalled]

CallBreaksVersions ==
    /\ fnArgs.op = "Compat"
    /\ ~fnRet.breaks.done
    /\ LET r == BreaksVersions(fnArgs.message)
       IN fnRet' = [fnRet EXCEPT !.breaks = [done |-> TRUE, panics |-> r.panics, ret |-> r.ret]]
    /\ UNCHANGED <<stage, called, runRet, started, ig, cs, errListener, cancelled,
                   arrivals, todo, outLog, errLog, doCalls, csLog, fnArgs>>

CallNonBreakingVersions ==
    /\ fnArgs.op = "Compat"
    /\ ~fnRet.warns.done
    /\ LET r == NonBreakingVersions(fnArgs.message)
       IN fnRet' = [fnRet EXCEPT !.warns = [done |-> TRUE, panics |-> r.panics, ret |-> r.ret]]
    /\ UNCHANGED <<stage, called, runRet, started, ig, cs, errListener, cancelled,
                   arrivals, todo, outLog, errLog, doCalls, csLog, fnArgs>>

NextCompat == CallBreaksVersions \/ CallNonBreakingVersions

SpecCompat == InitCompat /\ [][NextCompat]_vars

ErrorTyped(message) == message.Type \in {"ERROR", "Error", "error"}
WarningTyped(message) == message.Type \in {"WARNING", "Warning", "warning"}
Parsed(message) == ~Parse(message).panics /\ ~Parse(message).err

\* C13: for every message at most one of BreaksVersions and
\* NonBreakingVersions returns a non-empty list: BreaksVersions only for the
\* type error, NonBreakingVersions only for the type warning (in any case of
\* letters), and neither for a sniff code that does not parse; both calls
\* return for every message that parses.
C13_AtMostOneContributes ==
    LET m == fnArgs.message
    IN /\ ~(fnRet.breaks.ret # <<>> /\ fnRet.warns.ret # <<>>)
       /\ fnRet.breaks.ret # <<>> => ErrorTyped(m) /\ m.Source \in KnownSources
       /\ fnRet.warns.ret # <<>> => WarningTyped(m) /\ m.Source \in KnownSources
       /\ Parsed(m) => ~fnRet.breaks.panics /\ ~fnRet.warns.panics

C13_Witness ==
    /\ fnRet.breaks.done /\ fnRet.warns.done
    /\ fnArgs.message.Type = "WARNING"
    /\ fnRet.warns.ret # <<>> /\ fnRet.breaks.ret = <<>>
    /\ ~fnRet.breaks.panics

\* The catalogue minors whose max patch is within [low, high].
Affected(low, high) ==
    {CatalogueKeys[i] : i \in {j \in DOMAIN CatalogueKeys :
        /\ ~SemverLT(SemverMake(CatalogueMax[j]), SemverMake(low))
        /\ ~SemverLT(SemverMake(high), SemverMake(CatalogueMax[j]))}}

Classified(outcome, window) ==
    outcome.done =>
      /\ ~outcome.panics
      /\ StrictlyAscending(outcome.ret)
      /\ Elements(outcome.ret) =
           IF window.Reported = <<"all">>
             THEN {CatalogueKeys[i] : i \in DOMAIN CatalogueKeys}
             ELSE Affected(window.Low, window.High)

\* C15: for an error message with the parsed window [low, high],
\* BreaksVersions returns in ascending order exactly the catalogue minors
\* whose max patch m has low <= m <= high, and all nine when the window
\* reports "all"; NonBreakingVersions does the same for a warning message.
C15_ReturnsAffectedMinors ==
    LET m == fnArgs.message
    IN Parsed(m) =>
         /\ ErrorTyped(m) => Classified(fnRet.breaks, Parse(m).Breaks)
         /\ WarningTyped(m) => Classified(fnRet.warns, Parse(m).Warns)

C15_Witness ==
    /\ fnArgs.message.Type = "ERROR"
    /\ Parse(fnArgs.message).Breaks.Low = <<"5", "2", "0">>
    /\ Parse(fnArgs.message).Breaks.High = <<"5", "3", "29">>
    /\ fnRet.breaks.done
    /\ fnRet.breaks.ret = << <<"5", "2">>, <<"5", "3">> >>

-----------------------------------------------------------------------------
(* unzip on an archive *)

MaxEntries == 4

\* The entries an archive can list: directories and files, by name.
ArchiveEntries ==
    {Entry(<<"a", "/">>, TRUE, 0), Entry(<<"b", "/">>, TRUE, 0),
     Entry(<<"a", "/", "c", "/">>, TRUE, 0),
     Entry(<<"a", "/", "x">>, FALSE, 1), Entry(<<"b", "/", "y">>, FALSE, 2),
     Entry(<<"a", "/", "c", "/", "z">>, FALSE, 0)}

Archives == UNION {[1..n -> ArchiveEntries] : n \in 0..MaxEntries}

Destination == TempDir \o <<"/unzipped">>

InitUnzip ==
    /\ stage = "Ingest"
    /\ ig = NewIngest(TempDir, "chan", "chan")
    /\ cs = NewPhpcs(TempDir, "chan", "chan", "set", "set")
    /\ errListener = TRUE
    /\ Idle
    /\ fnArgs \in {[op |-> "unzip", files |-> f, destination |-> Destination] : f \in Archives}
    /\ fnRet = [done |-> FALSE, rootPath |-> EmptyString, filenames |-> <<>>, checksums |-> <<>>]

CallUnzip ==
    /\ fnArgs.op = "unzip"
    /\ ~fnRet.done
    /\ LET u == unzip(fnArgs.files, fnArgs.destination)
       IN fnRet' = [done |-> TRUE, rootPath |-> rootPathOf(fnArgs.files, EmptyString),
                    filenames |-> u.filenames, checksums |-> u.checksums]
    /\ UNCHANGED <<stage, called, runRet, started, ig, cs, errListener, cancelled,
                   arrivals, todo, outLog, errLog, doCalls, csLog, fnArgs>>

NextUnzip == CallUnzip

SpecUnzip == InitUnzip /\ [][NextUnzip]_vars

IsFileEntry(file) == ~file.IsDir

HasPrefix(s, prefix) == Len(prefix) <= Len(s) /\ SubSeq(s, 1, Len(prefix)) = prefix

\* C18: the root prefix unzip strips is an ancestor of every file entry of
\* the archive, and every extracted path is the destination joined with the
\* entry name minus that root.
C18_RootIsCommonAncestor ==
    fnRet.done =>
      LET entries == SelectSeq(fnArgs.files, IsFileEntry)
      IN /\ Len(fnRet.filenames) = Len(entries)
         /\ \A i \in DOMAIN entries :
               /\ HasPrefix(entries[i].Name, fnRet.rootPath)
               /\ fnRet.filenames[i] =
                    fnArgs.destination \o <<"/">>
                      \o SubSeq(entries[i].Name, Len(fnRet.rootPath) + 1, Len(entries[i].Name))

-----------------------------------------------------------------------------
(* Hand-off of the job record on Out *)

\* C19: once Ingest has sent a job record on Out it never writes to that
\* record again: the message, the files path and the result map the
\* downstream stage reads through the record stay as they were when it
\* received it, also while Ingest receives and processes the next message.
C19_SentRecordIsNeverRewritten ==
    \A j \in DOMAIN outLog :
       /\ ig.Message = outLog[j].Message
       /\ ig.FilesPath = outLog[j].FilesPath
       /\ ig.Result = outLog[j].Result

====
